---- MODULE Spec2Model ----
(***************************************************************************)
(* FormDataUtil (src/src/formdata/FormDataUtil.ts): the FormData <-> nested *)
(* object codec, as a state machine over a JavaScript heap.                 *)
(*                                                                          *)
(* A string is a sequence of tokens.  A token is one bracket "[" or "]",    *)
(* one decimal digit, or a word (a run of other characters, such as "a" or  *)
(* "__proto__") that is never split: the code only ever splits strings at   *)
(* brackets and tests them for digits.                                      *)
(***************************************************************************)
EXTENDS Integers, Sequences, FiniteSets, TLC

\* ------------------------------------------------------------ bounds
\* Number of (key, value) pairs a caller appends to a FormData by hand.
MaxPairs == 3
\* Number of value slots (properties, elements, entries, items) of the
\* object graph a caller builds and hands to fromObject.
MaxSize == 2

\* ------------------------------------------------------------ strings
Digits == <<"0", "1", "2", "3", "4", "5", "6", "7", "8", "9">>

IsDigit(c) == \E i \in 1..10 : Digits[i] = c

DigitVal(c) == (CHOOSE i \in 1..10 : Digits[i] = c) - 1

\* String(n) for an integer n >= 0: its decimal digits.
RECURSIVE NatToStr(_)
NatToStr(n) ==
  IF n < 10 THEN <<Digits[n + 1]>> ELSE NatToStr(n \div 10) \o <<Digits[(n % 10) + 1]>>

\* /^\d+$/.test(s)
AllDigits(s) == Len(s) > 0 /\ \A i \in 1..Len(s) : IsDigit(s[i])

\* key.split(/[\[\]]+/): the pieces between maximal runs of brackets; a run at
\* the start or the end of the string leaves an empty piece there.
IsBracket(c) == c = "[" \/ c = "]"

RECURSIVE SplitFrom(_, _, _)
SplitFrom(s, i, cur) ==
  IF i > Len(s) THEN <<cur>>
  ELSE IF IsBracket(s[i])
       THEN IF i > 1 /\ IsBracket(s[i - 1])
            THEN SplitFrom(s, i + 1, cur)
            ELSE <<cur>> \o SplitFrom(s, i + 1, <<>>)
       ELSE SplitFrom(s, i + 1, Append(cur, s[i]))

SplitBrackets(s) == SplitFrom(s, 1, <<>>)

\* .filter((k) => k !== '')
RECURSIVE FilterNonEmpty(_)
FilterNonEmpty(segs) ==
  IF segs = <<>> THEN <<>>
  ELSE IF Head(segs) = <<>> THEN FilterNonEmpty(Tail(segs))
       ELSE <<Head(segs)>> \o FilterNonEmpty(Tail(segs))

\* line 44: the segments assignNestedValue receives for a key.
KeySegments(key) == FilterNonEmpty(SplitBrackets(key))

\* parseInt(s, 10) for a string without sign or blanks: the value of the longest
\* prefix of digits, NaN when that prefix is empty.
RECURSIVE DigitPrefix(_)
DigitPrefix(s) ==
  IF s = <<>> \/ ~IsDigit(Head(s)) THEN <<>> ELSE <<Head(s)>> \o DigitPrefix(Tail(s))

RECURSIVE DigitsToNat(_)
DigitsToNat(ds) ==
  IF ds = <<>> THEN 0
  ELSE 10 * DigitsToNat(SubSeq(ds, 1, Len(ds) - 1)) + DigitVal(ds[Len(ds)])

ParseInt(s) ==
  LET ds == DigitPrefix(s)
  IN  IF ds = <<>> THEN [nan |-> TRUE, n |-> 0] ELSE [nan |-> FALSE, n |-> DigitsToNat(ds)]

\* The property key a number is converted to when it indexes an object.
NumberKey(p) == IF p.nan THEN <<"NaN">> ELSE NatToStr(p.n)

\* A canonical array index: the digits of a number, without leading zeros.
IsArrayIndex(k) == AllDigits(k) /\ NatToStr(DigitsToNat(k)) = k

\* ------------------------------------------------------------ values
\* A JavaScript value: t is its kind, s the string's tokens, n the number, the
\* boolean (0, 1) or the object's identity (its index in the heap).
Undefined == [t |-> "undefined", s |-> <<>>, n |-> 0]
Null == [t |-> "null", s |-> <<>>, n |-> 0]
Str(s) == [t |-> "string", s |-> s, n |-> 0]
Num(n) == [t |-> "number", s |-> <<>>, n |-> n]
Bool(b) == [t |-> "boolean", s |-> <<>>, n |-> IF b THEN 1 ELSE 0]
Func == [t |-> "function", s |-> <<>>, n |-> 0]
Sym == [t |-> "symbol", s |-> <<>>, n |-> 0]
Ref(o) == [t |-> "ref", s |-> <<>>, n |-> o]
\* A FormData object, by its index in forms (FormData objects are kept apart
\* from the heap: the code reads no property of one).
FormRef(f) == [t |-> "formdata", s |-> <<>>, n |-> f]

\* typeof v
TypeOf(v) == IF v.t = "ref" \/ v.t = "null" THEN "object" ELSE v.t

\* String(v) of a boolean, number or string.
ToStr(v) ==
  CASE v.t = "string" -> v.s
    [] v.t = "number" -> NatToStr(v.n)
    [] v.t = "boolean" -> IF v.n = 1 THEN <<"true">> ELSE <<"false">>
    [] OTHER -> <<"?">>

\* ------------------------------------------------------------ heap
\* The heap is a sequence of objects; an object's identity is its index.  An
\* object has a kind, its own properties in creation order (keys, vals), for an
\* array its length, and its prototype (0: null).  A Map keeps its entries and
\* a Set its items in keys and vals (a Set's keys are unused); a Date keeps its
\* time value, in milliseconds, in len.
ObjectPrototype == 1
ArrayPrototype == 2

NewObj(kind, proto) ==
  [kind |-> kind, keys |-> <<>>, vals |-> <<>>, len |-> 0, proto |-> proto]

InitHeap ==
  << [kind |-> "obj", keys |-> << <<"constructor">> >>, vals |-> <<Func>>,
      len |-> 0, proto |-> 0],
     [kind |-> "arr", keys |-> << <<"push">> >>, vals |-> <<Func>>,
      len |-> 0, proto |-> ObjectPrototype] >>

OwnIndex(obj, k) ==
  IF \E i \in 1..Len(obj.keys) : obj.keys[i] = k
  THEN CHOOSE i \in 1..Len(obj.keys) : obj.keys[i] = k
  ELSE 0

\* Array.isArray(v)
IsArray(h, v) == v.t = "ref" /\ h[v.n].kind = "arr"

\* o[k]: the own property, an array's length, the __proto__ accessor that
\* Object.prototype gives every object, or what the prototype chain holds.
RECURSIVE GetProp(_, _, _)
GetProp(h, o, k) ==
  LET obj == h[o]
      i == OwnIndex(obj, k)
  IN  IF k = <<"__proto__">> THEN (IF obj.proto = 0 THEN Null ELSE Ref(obj.proto))
      ELSE IF obj.kind = "arr" /\ k = <<"length">> THEN Num(obj.len)
      ELSE IF i # 0 THEN obj.vals[i]
      ELSE IF obj.proto # 0 THEN GetProp(h, obj.proto, k)
      ELSE Undefined

\* Whether object a is o or on o's prototype chain.
RECURSIVE OnProtoChain(_, _, _)
OnProtoChain(h, o, a) ==
  o # 0 /\ (o = a \/ OnProtoChain(h, h[o].proto, a))

Ok(h) == [ok |-> TRUE, h |-> h, err |-> "none"]
Thrown(h, e) == [ok |-> FALSE, h |-> h, err |-> e]

\* o[k] = v in strict mode: the heap after it, or the error it throws.
\* __proto__ is Object.prototype's setter: it changes the prototype when v is
\* an object or null and ignores other values; Object.prototype's own
\* prototype is immutable and a prototype chain may not become cyclic.
\* Assigning an array's length a value that is not a length is a RangeError.
SetProp(h, o, k, v) ==
  LET obj == h[o]
      i == OwnIndex(obj, k)
  IN  IF k = <<"__proto__">>
      THEN IF v.t = "ref" \/ v.t = "null"
           THEN LET p == IF v.t = "ref" THEN v.n ELSE 0
                IN  IF p = obj.proto THEN Ok(h)
                    ELSE IF o = ObjectPrototype \/ OnProtoChain(h, p, o)
                         THEN Thrown(h, "TypeError")
                         ELSE Ok([h EXCEPT ![o].proto = p])
           ELSE Ok(h)
      ELSE IF obj.kind = "arr" /\ k = <<"length">>
      THEN IF v.t = "number"
           THEN Ok([h EXCEPT ![o].len = v.n])
           ELSE Thrown(h, "RangeError")
      ELSE LET len == IF obj.kind = "arr" /\ IsArrayIndex(k) /\ DigitsToNat(k) >= obj.len
                      THEN DigitsToNat(k) + 1
                      ELSE obj.len
           IN  IF i # 0
               THEN Ok([h EXCEPT ![o].vals[i] = v])
               ELSE Ok([h EXCEPT ![o].keys = Append(@, k), ![o].vals = Append(@, v),
                                 ![o].len = len])

\* arr.push(v)
Push(h, o, v) == SetProp(h, o, NatToStr(h[o].len), v)

\* new object on the heap: the heap after it; the object's identity is its length.
Alloc(h, obj) == Append(h, obj)

\* ------------------------------------------------------------ toObject
\* lines 19-24: the walk over the intermediate keys, from container cur (a
\* value: an object, or null once the walk has stepped through a null
\* __proto__).  The result holds the heap, the container reached, and the
\* error when a step throws.
Walked(h, cur) == [ok |-> TRUE, h |-> h, err |-> "none", cur |-> cur]
WalkThrown(h, e) == [ok |-> FALSE, h |-> h, err |-> e, cur |-> Null]

\* line 21: the container created for a key: an array when the key itself is
\* all digits, else a plain object.
NewContainer(key) ==
  IF AllDigits(key) THEN NewObj("arr", ArrayPrototype) ELSE NewObj("obj", ObjectPrototype)

RECURSIVE WalkKeys(_, _, _)
WalkKeys(h, cur, keys) ==
  IF keys = <<>> THEN Walked(h, cur)
  ELSE LET key == Head(keys)
       IN  IF cur.t = "null"
           \* line 20 is true by `current === null`; line 21 assigns to null
           THEN WalkThrown(h, "TypeError")
           ELSE LET old == GetProp(h, cur.n, key)
                IN  IF old.t = "undefined" \/ TypeOf(old) # "object"
                    THEN LET h1 == Alloc(h, NewContainer(key))
                             set == SetProp(h1, cur.n, key, Ref(Len(h1)))
                         IN  IF set.ok
                             THEN WalkKeys(set.h, GetProp(set.h, cur.n, key), Tail(keys))
                             ELSE WalkThrown(set.h, set.err)
                    ELSE WalkKeys(h, old, Tail(keys))

\* lines 26-40: the placement of value at lastKey of the container reached.
PlaceValue(h, cur, lastKey, value) ==
  IF lastKey = <<>>
  THEN IF ~IsArray(h, cur) THEN Ok(h) ELSE Push(h, cur.n, value)
  ELSE IF IsArray(h, cur)
  THEN SetProp(h, cur.n, NumberKey(ParseInt(lastKey)), value)
  ELSE IF cur.t = "null"
  \* line 32 reads a property of null
  THEN Thrown(h, "TypeError")
  ELSE LET old == GetProp(h, cur.n, lastKey)
       IN  IF old.t # "undefined"
           THEN IF IsArray(h, old)
                THEN Push(h, old.n, value)
                ELSE LET h1 == Alloc(h, NewObj("arr", ArrayPrototype))
                         a == Len(h1)
                         h2 == Push(h1, a, old).h
                         h3 == Push(h2, a, value).h
                     IN  SetProp(h3, cur.n, lastKey, Ref(a))
           ELSE SetProp(h, cur.n, lastKey, value)

\* lines 14-41: assignNestedValue(target, keys, value).
AssignNestedValue(h, target, keys, value) ==
  IF keys = <<>> \/ keys[Len(keys)] = <<>>
  \* line 16: keys.pop() gave undefined or ''
  THEN Ok(h)
  ELSE LET w == WalkKeys(h, Ref(target), SubSeq(keys, 1, Len(keys) - 1))
       IN  IF w.ok THEN PlaceValue(w.h, w.cur, keys[Len(keys)], value)
           ELSE Thrown(w.h, w.err)

\* ------------------------------------------------------------ fromObject
\* The namespace argument: a string, or undefined (def = FALSE).
NoNamespace == [def |-> FALSE, s |-> <<>>]
Namespace(s) == [def |-> TRUE, s |-> s]

\* lines 83, 88, 93, 104 with a slip: the segment is joined with a dot.
ChildPathDotted(ns, seg) ==
  IF ns.def /\ ns.s # <<>> THEN ns.s \o <<".">> \o seg ELSE seg

\* lines 83, 88, 93, 104: namespace ? `${namespace}[${segment}]` : segment.
\* An undefined namespace and the empty string are both falsy.
ChildPath(ns, seg) ==
  IF ns.def /\ ns.s # <<>> THEN ns.s \o <<"[">> \o seg \o <<"]">> ELSE seg

\* The name FormData.append gives an entry: the string form of `namespace!`.
EntryName(ns) == IF ns.def THEN ns.s ELSE <<"undefined">>

\* Date.prototype.toISOString() of a time value within the first second of
\* 1970: the milliseconds, padded to three digits.
ToISOString(ms) ==
  LET d == NatToStr(ms)
      pad == IF Len(d) = 1 THEN <<"0", "0">> ELSE IF Len(d) = 2 THEN <<"0">> ELSE <<>>
  IN  <<"1970-01-01T00:00:00.">> \o pad \o d \o <<"Z">>

Child(seg, v) == [seg |-> seg, v |-> v]

\* The recursive calls an object's branch makes, in order, each with the path
\* segment and the value passed:
\*  lines 82-85, an array: forEach visits the indices that are present;
\*  lines 87-90, a Map: its entries, the segment being the key;
\*  lines 92-95, a Set: its items, numbered in iteration order;
\*  lines 97-107, another object: its own properties that are not undefined
\*  (in creation order: the keys a caller gives here are never array indices).
RECURSIVE ArrayChildren(_, _)
ArrayChildren(o, i) ==
  IF i >= o.len THEN <<>>
  ELSE (IF OwnIndex(o, NatToStr(i)) # 0
        THEN <<Child(NatToStr(i), o.vals[OwnIndex(o, NatToStr(i))])>>
        ELSE <<>>) \o ArrayChildren(o, i + 1)

RECURSIVE ObjectChildren(_, _)
ObjectChildren(o, i) ==
  IF i > Len(o.keys) THEN <<>>
  ELSE (IF o.vals[i].t = "undefined" THEN <<>> ELSE <<Child(o.keys[i], o.vals[i])>>)
       \o ObjectChildren(o, i + 1)

Children(o) ==
  CASE o.kind = "arr" -> ArrayChildren(o, 0)
    [] o.kind = "map" -> [i \in 1..Len(o.keys) |-> Child(o.keys[i], o.vals[i])]
    [] o.kind = "set" -> [i \in 1..Len(o.vals) |-> Child(NatToStr(i - 1), o.vals[i])]
    [] OTHER -> ObjectChildren(o, 1)

\* An entry of a FormData: its name and its value (a string or a Blob).
Entry(k, v) == [k |-> k, v |-> v]

\* form.append(name, value)
FormDataAppend(fs, f, ns, v) == [fs EXCEPT ![f] = Append(@, Entry(EntryName(ns), v))]

Frame(o, ns) == [o |-> o, ns |-> ns, i |-> 0]

\* line 115 with a slip: seen.delete(obj) empties the set.
SeenCleared(sn, o) == {}

\* lines 114-116 with a slip: the object stays in seen.
SeenKept(sn, o) == sn

\* lines 114-116: seen.delete(obj) as a call on object o returns.
SeenAfterExit(sn, o) == sn \ {o}

\* One call fromObject(v, form, ns, seen) up to its first recursive call, its
\* return or its throw (lines 64-80 and 108-118): the entries, the seen set
\* and the stack after it, and how it ended.
Outcome(fs, sn, st, how) == [forms |-> fs, seen |-> sn, stack |-> st, how |-> how]

\* Invoke with a slip: a composite met again is skipped instead of reported.
InvokeSkippingSeen(h, fs, f, sn, st, v, ns) ==
  IF v.t = "null" \/ v.t = "undefined"
  THEN Outcome(fs, sn, st, "returned")
  ELSE IF v.t = "ref"
  THEN IF v.n \in sn
       THEN Outcome(fs, sn, st, "returned")
       ELSE IF h[v.n].kind = "date"
       THEN Outcome(FormDataAppend(fs, f, ns, Str(ToISOString(h[v.n].len))), sn, st, "returned")
       ELSE IF h[v.n].kind = "blob"
       THEN Outcome(FormDataAppend(fs, f, ns, v), sn, st, "returned")
       ELSE Outcome(fs, sn \cup {v.n}, Append(st, Frame(v.n, ns)), "entered")
  ELSE IF v.t \in {"boolean", "number", "string"}
  THEN Outcome(FormDataAppend(fs, f, ns, Str(ToStr(v))), sn, st, "returned")
  ELSE Outcome(fs, sn, st, "returned")

\* Invoke with a slip: the generic-object case is tried before Date and Blob.
InvokeObjectFirst(h, fs, f, sn, st, v, ns) ==
  IF v.t = "null" \/ v.t = "undefined"
  THEN Outcome(fs, sn, st, "returned")
  ELSE IF v.t = "ref"
  THEN IF v.n \in sn
       THEN Outcome(fs, sn, st, "threw")
       ELSE Outcome(fs, sn \cup {v.n}, Append(st, Frame(v.n, ns)), "entered")
  ELSE IF v.t \in {"boolean", "number", "string"}
  THEN Outcome(FormDataAppend(fs, f, ns, Str(ToStr(v))), sn, st, "returned")
  ELSE Outcome(fs, sn, st, "returned")

\* Invoke with a slip: every value that is not an object is stringified.
InvokeStringifyAll(h, fs, f, sn, st, v, ns) ==
  IF v.t = "null" \/ v.t = "undefined"
  THEN Outcome(fs, sn, st, "returned")
  ELSE IF v.t = "ref"
  THEN IF v.n \in sn
       THEN Outcome(fs, sn, st, "threw")
       ELSE IF h[v.n].kind = "date"
       THEN Outcome(FormDataAppend(fs, f, ns, Str(ToISOString(h[v.n].len))), sn, st, "returned")
       ELSE IF h[v.n].kind = "blob"
       THEN Outcome(FormDataAppend(fs, f, ns, v), sn, st, "returned")
       ELSE Outcome(fs, sn \cup {v.n}, Append(st, Frame(v.n, ns)), "entered")
  ELSE Outcome(FormDataAppend(fs, f, ns, Str(ToStr(v))), sn, st, "returned")

\* A Date or Blob is added to seen (line 74) and removed again (line 115)
\* within the step, so seen is as before it.
Invoke(h, fs, f, sn, st, v, ns) ==
  IF v.t = "null" \/ v.t = "undefined"
  THEN Outcome(fs, sn, st, "returned")
  ELSE IF v.t = "ref"
  THEN IF v.n \in sn
       THEN Outcome(fs, sn, st, "threw")
       ELSE IF h[v.n].kind = "date"
       THEN Outcome(FormDataAppend(fs, f, ns, Str(ToISOString(h[v.n].len))), sn, st, "returned")
       ELSE IF h[v.n].kind = "blob"
       THEN Outcome(FormDataAppend(fs, f, ns, v), sn, st, "returned")
       ELSE Outcome(fs, sn \cup {v.n}, Append(st, Frame(v.n, ns)), "entered")
  ELSE IF v.t \in {"boolean", "number", "string"}
  THEN Outcome(FormDataAppend(fs, f, ns, Str(ToStr(v))), sn, st, "returned")
  ELSE Outcome(fs, sn, st, "returned")

\* ------------------------------------------------------------ state
VARIABLES
  heap,    \* the JavaScript heap
  forms,   \* the FormData objects: forms[f] is the entry list of FormData f
  pc,      \* what the caller is doing
  root,    \* the value the caller builds and hands to fromObject
  size,    \* the number of value slots of that value's object graph
  arg,     \* fromObject's formData argument (0: omitted)
  form,    \* fromObject's `form`
  before,  \* the entries the accumulator held when fromObject was called
  seen,    \* fromObject's `seen`
  stack,   \* the fromObject calls in progress, innermost last
  src,     \* toObject's formData argument
  pos,     \* the number of entries toObject has assigned
  obj,     \* toObject's `obj`
  err,     \* the error thrown by the call ("none": none)
  ret      \* the value the call returned

vars == <<heap, forms, pc, root, size, arg, form, before, seen, stack, src, pos, obj, err, ret>>

encVars == <<root, size, arg, form, before, seen, stack>>
decVars == <<src, pos, obj>>

\* The utilities beside the codec each keep their own state.
VARIABLES
  bus,       \* whether an EventBus has been constructed
  channels,  \* EventBus.channels: channel |-> the listeners, in registration order
  calls,     \* the listener calls the last publish made, in order
  pub        \* the arguments of the last publish (none: <<>>)

busVars == <<bus, channels, calls, pub>>

VARIABLES
  io,        \* whether an IntersectionObserverUtil has been constructed
  once,      \* its params.once
  observed,  \* whether its observer observes the node
  entries,   \* the entries the observer has queued for its next notification
  callbacks  \* the number of calls of params.callback

ioVars == <<io, once, observed, entries, callbacks>>

VARIABLES
  jar,       \* the browser's cookies for the document, oldest first
  writes,    \* the assignments to document.cookie the last call made
  lastSet,   \* the arguments of the Cookies.set that wrote last (none: <<>>)
  lastCall   \* the last call of Cookies and its outcome

cookieVars == <<jar, writes, lastSet, lastCall>>

CookieCall(op, key, how, value) == [op |-> op, key |-> key, how |-> how, ret |-> value]

\* No EventBus and no IntersectionObserverUtil has been constructed, Cookies
\* has not been called and the jar is empty.
ObjectsIdle ==
  /\ bus = "none"
  /\ channels = << >>
  /\ calls = << >>
  /\ pub = << >>
  /\ io = "none"
  /\ once = FALSE
  /\ observed = FALSE
  /\ entries = << >>
  /\ callbacks = 0
  /\ jar = << >>
  /\ writes = << >>
  /\ lastSet = << >>
  /\ lastCall = CookieCall("none", << >>, "returned", Undefined)

VARIABLES
  eqV1,      \* ObjectUtil.equals: v1
  eqV2,      \* ObjectUtil.equals: v2
  eqRet      \* the value it returned (not called: <<>>)

equalsVars == <<eqV1, eqV2, eqRet>>

\* ObjectUtil.equals has no arguments yet.
EqualsIdle ==
  /\ eqV1 = Undefined
  /\ eqV2 = Undefined
  /\ eqRet = << >>

VARIABLES
  uidMin,    \* UidGenerator.generateUniqueNumber: min
  uidMax,    \* UidGenerator.generateUniqueNumber: max
  uidBytes,  \* the bytes the random source put into randomBytes
  uidRet     \* the value it returned (not called: <<>>)

uidVars == <<uidMin, uidMax, uidBytes, uidRet>>

\* generateUniqueNumber has no arguments yet.
UidIdle ==
  /\ uidMin = 0
  /\ uidMax = 0
  /\ uidBytes = << >>
  /\ uidRet = << >>

VARIABLES
  text,      \* TextUtil.truncate: text
  maxLength, \* TextUtil.truncate: maxLength
  truncated  \* the value it returned (not called: <<>>)

textVars == <<text, maxLength, truncated>>

\* truncate has no arguments yet.
TextIdle ==
  /\ text = << >>
  /\ maxLength = 0
  /\ truncated = << >>

utilVars == <<busVars, ioVars, cookieVars, equalsVars, uidVars, textVars>>

UtilIdle == ObjectsIdle /\ EqualsIdle /\ UidIdle /\ TextIdle

\* The keys a caller gives the entries it appends by hand.
HandKeys ==
  { <<"a">>,
    <<"a", "[", "]">>,
    <<"a", "[", "0", "]">>,
    <<"a", "[", "1", "]">>,
    <<"a", "[", "b", "]">>,
    <<"0", "[", "0", "]">>,
    <<"0", "[", "b", "]">>,
    <<"0", "[", "length", "]", "[", "b", "]">>,
    <<>>,
    <<"[", "a">>,
    <<"constructor">>,
    <<"__proto__", "[", "a", "]">>,
    <<"__proto__", "[", "__proto__", "]", "[", "a", "]">> }

\* The value of the i-th entry appended by hand.
HandValue(i) == Str(<<"v">> \o NatToStr(i))

InitCodec ==
  /\ heap = InitHeap
  /\ forms = << <<>> >>
  /\ pc = "idle"
  /\ root = Undefined
  /\ size = 0
  /\ arg = 0
  /\ form = 0
  /\ before = <<>>
  /\ seen = {}
  /\ stack = <<>>
  /\ src = 0
  /\ pos = 0
  /\ obj = 0
  /\ err = "none"
  /\ ret = Undefined

\* Nothing has been called yet.
Init == InitCodec /\ UtilIdle

\* The caller appends an entry to its FormData: formData.append(k, v).  A
\* caller that has built no value to encode fills the FormData with up to
\* MaxPairs entries; one that has built a value gives it at most one entry,
\* the content an accumulator holds before fromObject is called with it.
FormAppend(k) ==
  /\ pc = "idle"
  /\ Len(forms[1]) < (IF root = Undefined THEN MaxPairs ELSE 1)
  /\ root # Undefined => k = <<"a">>
  /\ forms' = [forms EXCEPT ![1] = Append(@, Entry(k, HandValue(Len(@) + 1)))]
  /\ UNCHANGED <<heap, pc, err, ret>>
  /\ UNCHANGED encVars
  /\ UNCHANGED decVars
  /\ UNCHANGED utilVars

\* toObject(formData) is called: line 12.
ToObjectCall(f) ==
  /\ pc \in {"idle", "encoded"}
  /\ pc = "encoded" => f = form
  /\ pc = "idle" => f = 1 /\ root = Undefined
  /\ pc' = "decoding"
  /\ heap' = Alloc(heap, NewObj("obj", ObjectPrototype))
  /\ obj' = Len(heap')
  /\ src' = f
  /\ pos' = 0
  /\ UNCHANGED <<forms, err, ret>>
  /\ UNCHANGED encVars
  /\ UNCHANGED utilVars

\* One turn of the loop of lines 43-46, which may throw.
ToObjectStep ==
  /\ pc = "decoding"
  /\ pos < Len(forms[src])
  /\ LET e == forms[src][pos + 1]
         r == AssignNestedValue(heap, obj, KeySegments(e.k), e.v)
     IN  /\ heap' = r.h
         /\ pos' = pos + 1
         /\ pc' = IF r.ok THEN "decoding" ELSE "decodeThrew"
         /\ err' = r.err
  /\ UNCHANGED <<forms, src, obj, ret>>
  /\ UNCHANGED encVars
  /\ UNCHANGED utilVars

\* line 48
ToObjectReturn ==
  /\ pc = "decoding"
  /\ pos = Len(forms[src])
  /\ pc' = "decoded"
  /\ ret' = Ref(obj)
  /\ UNCHANGED <<heap, forms, err>>
  /\ UNCHANGED encVars
  /\ UNCHANGED decVars
  /\ UNCHANGED utilVars


\* ---- the caller builds the value it will encode
CompositeKinds == {"obj", "arr", "map", "set"}
ObjectKinds == CompositeKinds \cup {"date", "blob"}
LeafValues == {Str(<<"x">>), Num(7), Bool(TRUE), Undefined, Null, Func, Sym}
DateTimes == {12}

\* The key of the n-th property or Map entry the caller adds: k1, k2, ...
SlotKey(n) == <<"k">> \o NatToStr(n)

\* The objects the caller built.
Built == 3..Len(heap)

Fresh(kind) ==
  IF kind = "date"
  THEN [NewObj(kind, ObjectPrototype) EXCEPT !.len = CHOOSE t \in DateTimes : TRUE]
  ELSE IF kind = "arr" THEN NewObj(kind, ArrayPrototype)
  ELSE NewObj(kind, ObjectPrototype)

\* o[key] = v, arr.push(v), map.set(key, v) or set.add(v), by the kind of o.
WithSlot(h, o, v) ==
  CASE h[o].kind = "arr" -> Push(h, o, v).h
    [] h[o].kind = "obj" -> SetProp(h, o, SlotKey(Len(h[o].keys) + 1), v).h
    [] h[o].kind = "map" ->
         [h EXCEPT ![o].keys = Append(@, SlotKey(Len(@) + 1)), ![o].vals = Append(@, v)]
    [] OTHER -> [h EXCEPT ![o].vals = Append(@, v)]

CanBuild == pc = "idle" /\ forms[1] = <<>>

\* const value = <a leaf>
BuildLeafRoot(v) ==
  /\ CanBuild
  /\ root = Undefined
  /\ v # Undefined
  /\ root' = v
  /\ UNCHANGED <<heap, forms, pc, size, arg, form, before, seen, stack, err, ret>>
  /\ UNCHANGED decVars
  /\ UNCHANGED utilVars

\* const value = {}, [], new Map(), new Set(), new Date(t) or new Blob()
BuildRoot(kind) ==
  /\ CanBuild
  /\ root = Undefined
  /\ heap' = Alloc(heap, Fresh(kind))
  /\ root' = Ref(Len(heap'))
  /\ UNCHANGED <<forms, pc, size, arg, form, before, seen, stack, err, ret>>
  /\ UNCHANGED decVars
  /\ UNCHANGED utilVars

\* The caller stores a leaf or a reference to an object it built in composite o.
AddSlot(o, v) ==
  /\ CanBuild
  /\ size < MaxSize
  /\ heap[o].kind \in CompositeKinds
  /\ heap[o].kind = "set" => \A i \in 1..Len(heap[o].vals) : heap[o].vals[i] # v
  /\ heap' = WithSlot(heap, o, v)
  /\ size' = size + 1
  /\ UNCHANGED <<forms, pc, root, arg, form, before, seen, stack, err, ret>>
  /\ UNCHANGED decVars
  /\ UNCHANGED utilVars

\* The caller stores a new object in composite o.
AddNew(o, kind) ==
  /\ CanBuild
  /\ size < MaxSize
  /\ heap[o].kind \in CompositeKinds
  /\ LET h1 == Alloc(heap, Fresh(kind))
     IN  heap' = WithSlot(h1, o, Ref(Len(h1)))
  /\ size' = size + 1
  /\ UNCHANGED <<forms, pc, root, arg, form, before, seen, stack, err, ret>>
  /\ UNCHANGED decVars
  /\ UNCHANGED utilVars

\* ---- fromObject
\* The state after a call's outcome: an entered call leaves its frame on the
\* stack; a call that returned to no caller ends the encode; a throw unwinds
\* every call (no call catches it).
Resume(out, f) ==
  /\ forms' = out.forms
  /\ seen' = out.seen
  /\ stack' = IF out.how = "threw" THEN <<>> ELSE out.stack
  /\ pc' = IF out.how = "threw" THEN "encodeThrew"
           ELSE IF out.stack = <<>> THEN "encoded" ELSE "encoding"
  /\ err' = IF out.how = "threw" THEN "CyclicReference" ELSE "none"
  /\ ret' = IF out.how # "threw" /\ out.stack = <<>> THEN FormRef(f) ELSE ret

\* line 64 with a slip: the accumulator given is ignored.
FormAlwaysNew(fs, f) == [forms |-> Append(fs, <<>>), form |-> Len(fs) + 1]

\* line 64: formData || new FormData()
FormOrNew(fs, f) == IF f # 0 THEN [forms |-> fs, form |-> f]
                    ELSE [forms |-> Append(fs, <<>>), form |-> Len(fs) + 1]

\* fromObject(root) (f = 0) or fromObject(root, formData) is called.  A caller
\* whose FormData holds entries passes it: the call without it would not
\* differ from the call of a caller whose FormData is empty.
FromObjectCall(f) ==
  /\ pc = "idle"
  /\ f = 0 => forms[1] = <<>>
  /\ LET fn == FormOrNew(forms, f)
     IN  /\ arg' = f
         /\ form' = fn.form
         /\ before' = IF f # 0 THEN forms[f] ELSE <<>>
         /\ Resume(Invoke(heap, fn.forms, fn.form, {}, <<>>, root, NoNamespace), fn.form)
  /\ UNCHANGED <<heap, root, size>>
  /\ UNCHANGED decVars
  /\ UNCHANGED utilVars

\* The innermost call makes its next recursive call (lines 84, 89, 94, 106).
FromObjectRecurse ==
  /\ pc = "encoding"
  /\ LET top == stack[Len(stack)]
         kids == Children(heap[top.o])
     IN  /\ top.i < Len(kids)
         /\ LET kid == kids[top.i + 1]
                st == [stack EXCEPT ![Len(stack)].i = top.i + 1]
            IN  Resume(Invoke(heap, forms, form, seen, st, kid.v,
                                 Namespace(ChildPath(top.ns, kid.seg))),
                       form)
  /\ UNCHANGED <<heap, root, size, arg, form, before>>
  /\ UNCHANGED decVars
  /\ UNCHANGED utilVars

\* The innermost call has made all its calls: lines 114-118.
FromObjectExit ==
  /\ pc = "encoding"
  /\ LET top == stack[Len(stack)]
     IN  /\ top.i = Len(Children(heap[top.o]))
         /\ Resume(Outcome(forms, SeenAfterExit(seen, top.o), SubSeq(stack, 1, Len(stack) - 1), "returned"),
                   form)
  /\ UNCHANGED <<heap, root, size, arg, form, before>>
  /\ UNCHANGED decVars
  /\ UNCHANGED utilVars

Next ==
  \/ \E v \in LeafValues : BuildLeafRoot(v)
  \/ \E kind \in ObjectKinds : BuildRoot(kind)
  \/ \E o \in Built : \E v \in LeafValues \cup {Ref(p) : p \in Built} : AddSlot(o, v)
  \/ \E o \in Built : \E kind \in ObjectKinds : AddNew(o, kind)
  \/ \E f \in {0, 1} : FromObjectCall(f)
  \/ FromObjectRecurse
  \/ FromObjectExit
  \/ \E k \in HandKeys : FormAppend(k)
  \/ \E f \in 1..Len(forms) : ToObjectCall(f)
  \/ ToObjectStep
  \/ ToObjectReturn

Spec == Init /\ [][Next]_<<vars, utilVars>>

\* ------------------------------------------------------------ EventBus
\* The longest listener list the callers build on one channel.
MaxSubs == 2

BusChannelNames == {"loaded", "error"}

\* The caller's listener functions, by identity.
BusListeners == {1, 2}

BusData == {Num(1), Null}

\* The initialChannels objects a caller passes to the constructor.
InitialChannels ==
  UNION {[cs -> {<<>>} \cup {<<l>> : l \in BusListeners}] : cs \in SUBSET BusChannelNames}

\* Map.prototype.get: undefined (here the empty list, which publish treats
\* alike) for a missing key.
MapGet(m, c) == IF c \in DOMAIN m THEN m[c] ELSE <<>>

RECURSIVE ForEachReversed(_, _)
ForEachReversed(listeners, data) ==
  IF listeners = <<>> THEN <<>>
  ELSE Append(ForEachReversed(Tail(listeners), data), [listener |-> Head(listeners), data |-> data])

\* listeners.forEach((listener) => listener(data)): the calls made, in order.
RECURSIVE ForEach(_, _)
ForEach(listeners, data) ==
  IF listeners = <<>> THEN <<>>
  ELSE <<[listener |-> Head(listeners), data |-> data]>> \o ForEach(Tail(listeners), data)

EventBusNew(initialChannels) ==
  /\ bus = "none"
  /\ bus' = "ready"
  /\ channels' = initialChannels
  /\ UNCHANGED <<calls, pub>>
  /\ UNCHANGED <<vars, ioVars, cookieVars, equalsVars, uidVars, textVars>>

Subscribe(channel, listener) ==
  /\ bus = "ready"
  /\ Len(MapGet(channels, channel)) < MaxSubs
  /\ channels' = [c \in DOMAIN channels \cup {channel} |->
                     IF c = channel THEN Append(MapGet(channels, channel), listener)
                     ELSE channels[c]]
  /\ UNCHANGED <<bus, calls, pub>>
  /\ UNCHANGED <<vars, ioVars, cookieVars, equalsVars, uidVars, textVars>>

Publish(channel, data) ==
  /\ bus = "ready"
  /\ LET listeners == MapGet(channels, channel)
     IN  calls' = IF Len(listeners) = 0 THEN <<>> ELSE ForEach(listeners, data)
  /\ pub' = <<[channel |-> channel, data |-> data]>>
  /\ UNCHANGED <<bus, channels>>
  /\ UNCHANGED <<vars, ioVars, cookieVars, equalsVars, uidVars, textVars>>

NextBus ==
  \/ \E initialChannels \in InitialChannels : EventBusNew(initialChannels)
  \/ \E c \in BusChannelNames : \E l \in BusListeners : Subscribe(c, l)
  \/ \E c \in BusChannelNames : \E d \in BusData : Publish(c, d)

SpecBus == Init /\ [][NextBus]_<<vars, utilVars>>

\* ------------------------------------------------------------ IntersectionObserverUtil
\* The most entries the observer queues before it notifies.
MaxBatch == 3

\* The most callback calls followed.
MaxCallbacks == 4

\* The queued entries that intersect (an entry is its isIntersecting).
RECURSIVE Intersecting(_)
Intersecting(es) ==
  IF es = <<>> THEN 0
  ELSE (IF Head(es) THEN 1 ELSE 0) + Intersecting(Tail(es))

\* entries.forEach(...): every intersecting entry calls the callback, and
\* unobserves the node when params.once is set; st is whether the node is
\* observed and the number of callback calls made.
RECURSIVE HandleIntersect(_, _, _)
HandleIntersect(es, isOnce, st) ==
  IF es = <<>> THEN st
  ELSE HandleIntersect(Tail(es), isOnce,
         IF Head(es)
         THEN [observed |-> IF isOnce THEN FALSE ELSE st.observed, callbacks |-> st.callbacks + 1]
         ELSE st)

IntersectionObserverUtilNew(isOnce) ==
  /\ io = "none"
  /\ io' = "created"
  /\ once' = isOnce
  /\ observed' = TRUE
  /\ UNCHANGED <<entries, callbacks>>
  /\ UNCHANGED <<vars, busVars, cookieVars, equalsVars, uidVars, textVars>>

\* The browser queues an entry for the node: only for an observed target,
\* and more than once between two notifications when the intersection changes
\* more than once (several thresholds, a busy event loop).
QueueEntry(isIntersecting) ==
  /\ io = "created"
  /\ observed
  /\ Len(entries) < MaxBatch
  /\ entries' = Append(entries, isIntersecting)
  /\ UNCHANGED <<io, once, observed, callbacks>>
  /\ UNCHANGED <<vars, busVars, cookieVars, equalsVars, uidVars, textVars>>

\* The browser notifies the observer: handleIntersect gets all queued entries.
Notify ==
  /\ io = "created"
  /\ entries # <<>>
  /\ callbacks + Intersecting(entries) <= MaxCallbacks
  /\ LET st == HandleIntersect(entries, once, [observed |-> observed, callbacks |-> callbacks])
     IN  /\ observed' = st.observed
         /\ callbacks' = st.callbacks
  /\ entries' = <<>>
  /\ UNCHANGED <<io, once>>
  /\ UNCHANGED <<vars, busVars, cookieVars, equalsVars, uidVars, textVars>>

\* disconnect(): the entries already queued are delivered or dropped, as the
\* browser chooses.
Disconnect ==
  /\ io = "created"
  /\ observed' = FALSE
  /\ entries' \in {entries, <<>>}
  /\ UNCHANGED <<io, once, callbacks>>
  /\ UNCHANGED <<vars, busVars, cookieVars, equalsVars, uidVars, textVars>>

NextObserver ==
  \/ \E isOnce \in BOOLEAN : IntersectionObserverUtilNew(isOnce)
  \/ \E isIntersecting \in BOOLEAN : QueueEntry(isIntersecting)
  \/ Notify
  \/ Disconnect

SpecObserver == Init /\ [][NextObserver]_<<vars, utilVars>>

\* ------------------------------------------------------------ Cookies
\* The most cookies the jar holds.
MaxCookies == 2

\* A string is a sequence of tokens: a word of letters, a digit, or one of
\* "-", "_", "." and the tokens below, which encodeURIComponent escapes.
Reserved == {"\"", "{", "}", ":", ";", "=", ",", "%", " "}

EscapeOf(c) ==
  CASE c = "\"" -> <<"%", "2", "2">>
    [] c = "{" -> <<"%", "7", "B">>
    [] c = "}" -> <<"%", "7", "D">>
    [] c = ":" -> <<"%", "3", "A">>
    [] c = ";" -> <<"%", "3", "B">>
    [] c = "=" -> <<"%", "3", "D">>
    [] c = "," -> <<"%", "2", "C">>
    [] c = "%" -> <<"%", "2", "5">>
    [] c = " " -> <<"%", "2", "0">>

RECURSIVE EncodeURIComponent(_)
EncodeURIComponent(s) ==
  IF s = <<>> THEN <<>>
  ELSE (IF Head(s) \in Reserved THEN EscapeOf(Head(s)) ELSE <<Head(s)>>)
       \o EncodeURIComponent(Tail(s))

\* decodeURIComponent: the string decoded (ok), or the URIError (~ok) that a
\* "%" starting no escape raises.
RECURSIVE DecodeURIComponent(_)
DecodeURIComponent(s) ==
  IF s = <<>> THEN [ok |-> TRUE, s |-> <<>>]
  ELSE IF Head(s) = "%"
       THEN IF Len(s) >= 3 /\ \E c \in Reserved : EscapeOf(c) = SubSeq(s, 1, 3)
            THEN LET c == CHOOSE c \in Reserved : EscapeOf(c) = SubSeq(s, 1, 3)
                     rest == DecodeURIComponent(SubSeq(s, 4, Len(s)))
                 IN  IF rest.ok THEN [ok |-> TRUE, s |-> <<c>> \o rest.s] ELSE rest
            ELSE [ok |-> FALSE, s |-> <<>>]
       ELSE LET rest == DecodeURIComponent(Tail(s))
            IN  IF rest.ok THEN [ok |-> TRUE, s |-> <<Head(s)>> \o rest.s] ELSE rest

\* A plain object of JSON values: its properties in creation order.
JsonObject(props) == [t |-> "json", props |-> props]
Prop(k, v) == [k |-> k, v |-> v]

\* JSON.stringify of a number, a boolean, null, a string without quotes or
\* backslashes, or a plain object of such values.
RECURSIVE Stringify(_)
RECURSIVE StringifyProps(_)
Stringify(v) ==
  CASE v.t = "json" -> <<"{">> \o StringifyProps(v.props) \o <<"}">>
    [] v.t = "string" -> <<"\"">> \o v.s \o <<"\"">>
    [] v.t = "null" -> <<"null">>
    [] OTHER -> ToStr(v)

StringifyProps(props) ==
  IF props = <<>> THEN <<>>
  ELSE <<"\"">> \o Head(props).k \o <<"\"", ":">> \o Stringify(Head(props).v)
       \o (IF Len(props) = 1 THEN <<>> ELSE <<",">> \o StringifyProps(Tail(props)))

Parsed(v, next) == [ok |-> TRUE, v |-> v, next |-> next]
SyntaxError == [ok |-> FALSE, v |-> Undefined, next |-> 0]

\* The position of the first quote of s from position i on (0: none).
RECURSIVE StringEnd(_, _)
StringEnd(s, i) ==
  IF i > Len(s) THEN 0 ELSE IF s[i] = "\"" THEN i ELSE StringEnd(s, i + 1)

\* The JSON value of s that starts at position i, and the position after it.
RECURSIVE ParseValue(_, _)
RECURSIVE ParseMembers(_, _, _)
ParseValue(s, i) ==
  IF i > Len(s) THEN SyntaxError
  ELSE IF s[i] = "true" THEN Parsed(Bool(TRUE), i + 1)
  ELSE IF s[i] = "false" THEN Parsed(Bool(FALSE), i + 1)
  ELSE IF s[i] = "null" THEN Parsed(Null, i + 1)
  ELSE IF IsDigit(s[i])
       THEN LET n == Len(DigitPrefix(SubSeq(s, i, Len(s))))
            IN  IF s[i] = "0" /\ n > 1 THEN SyntaxError
                ELSE Parsed(Num(DigitsToNat(SubSeq(s, i, i + n - 1))), i + n)
  ELSE IF s[i] = "\""
       THEN LET e == StringEnd(s, i + 1)
            IN  IF e = 0 THEN SyntaxError ELSE Parsed(Str(SubSeq(s, i + 1, e - 1)), e + 1)
  ELSE IF s[i] = "{"
       THEN IF i + 1 <= Len(s) /\ s[i + 1] = "}"
            THEN Parsed(JsonObject(<<>>), i + 2)
            ELSE ParseMembers(s, i + 1, <<>>)
  ELSE SyntaxError

ParseMembers(s, i, props) ==
  IF i > Len(s) \/ s[i] # "\"" THEN SyntaxError
  ELSE LET e == StringEnd(s, i + 1)
       IN  IF e = 0 \/ e + 1 > Len(s) \/ s[e + 1] # ":" THEN SyntaxError
           ELSE LET r == ParseValue(s, e + 2)
                    ps == Append(props, Prop(SubSeq(s, i + 1, e - 1), r.v))
                IN  IF ~r.ok \/ r.next > Len(s) THEN SyntaxError
                    ELSE IF s[r.next] = "}" THEN Parsed(JsonObject(ps), r.next + 1)
                    ELSE IF s[r.next] = "," THEN ParseMembers(s, r.next + 1, ps)
                    ELSE SyntaxError

\* JSON.parse(s): the whole of s must be one value.
JSONParse(s) ==
  LET r == ParseValue(s, 1)
  IN  IF r.ok /\ r.next = Len(s) + 1 THEN r ELSE SyntaxError

\* try { return JSON.parse(decodedValue) } catch { return decodedValue }
ParseOrText(decodedValue) ==
  LET r == JSONParse(decodedValue) IN IF r.ok THEN r.v ELSE Str(decodedValue)

\* s.split(sep)
RECURSIVE Split(_, _)
Split(s, sep) ==
  IF \A i \in 1..Len(s) : s[i] # sep THEN <<s>>
  ELSE LET i == CHOOSE i \in 1..Len(s) : s[i] = sep /\ \A j \in 1..(i - 1) : s[j] # sep
       IN  <<SubSeq(s, 1, i - 1)>> \o Split(SubSeq(s, i + 1, Len(s)), sep)

\* s.trim()
RECURSIVE Trim(_)
Trim(s) ==
  IF s # <<>> /\ Head(s) = " " THEN Trim(Tail(s))
  ELSE IF s # <<>> /\ s[Len(s)] = " " THEN Trim(SubSeq(s, 1, Len(s) - 1))
  ELSE s

\* The value the getter of document.cookie returns.
RECURSIVE DocumentCookie(_)
DocumentCookie(j) ==
  IF j = <<>> THEN <<>>
  ELSE Head(j).name \o <<"=">> \o Head(j).value
       \o (IF Len(j) = 1 THEN <<>> ELSE <<";", " ">> \o DocumentCookie(Tail(j)))

\* document.cookie.split(';').map((cookie) => cookie.trim())
CookieList(doc) == LET parts == Split(doc, ";") IN [i \in 1..Len(parts) |-> Trim(parts[i])]

\* const [cookieKey] = cookie.split('=', 2)
CookieKey(cookie) == Split(cookie, "=")[1]

\* cookie.substring(cookieKey.length + 1)
CookieValue(cookie) == SubSeq(cookie, Len(CookieKey(cookie)) + 2, Len(cookie))

\* !key || !/^[a-zA-Z0-9_-]+$/.test(key) fails
ValidKey(key) == key # <<>> /\ \A i \in 1..Len(key) : key[i] \notin Reserved \cup {"."}

\* An assignment to document.cookie; expires is "none" or "epoch" (new Date(0)).
Write(name, value, expires) == [name |-> name, value |-> value, expires |-> expires]

HasCookie(j, name) == \E i \in 1..Len(j) : j[i].name = name

\* What the browser does with an assignment to document.cookie: a cookie that
\* has expired is removed, another one replaces the cookie of its name or is
\* added.
JarWrite(j, w) ==
  IF w.expires = "epoch" THEN SelectSeq(j, LAMBDA c : c.name # w.name)
  ELSE IF HasCookie(j, w.name)
       THEN [i \in 1..Len(j) |-> IF j[i].name = w.name THEN [name |-> w.name, value |-> w.value] ELSE j[i]]
       ELSE Append(j, [name |-> w.name, value |-> w.value])

SetOutcome(how, j, ws) == [how |-> how, jar |-> j, writes |-> ws]

\* Cookies.set(key, value, { expires })
CookiesSet(j, key, value, expires) ==
  IF ~ValidKey(key) THEN SetOutcome("threw", j, <<>>)
  ELSE LET encodedKey == EncodeURIComponent(key)
           serializedValue == IF value.t = "string" THEN EncodeURIComponent(value.s)
                              ELSE EncodeURIComponent(Stringify(value))
           w == Write(encodedKey, serializedValue, expires)
       IN  SetOutcome("returned", JarWrite(j, w), <<w>>)

\* Cookies.get(key), from the list of cookies on
RECURSIVE GetFrom(_, _, _)
GetFrom(cookies, key, encodedKey) ==
  IF cookies = <<>> THEN CookieCall("get", key, "returned", Null)
  ELSE IF CookieKey(Head(cookies)) = encodedKey
       THEN LET d == DecodeURIComponent(CookieValue(Head(cookies)))
            IN  IF d.ok THEN CookieCall("get", key, "returned", ParseOrText(d.s))
                ELSE CookieCall("get", key, "threw", Undefined)
       ELSE GetFrom(Tail(cookies), key, encodedKey)

CookiesGet(j, key) == GetFrom(CookieList(DocumentCookie(j)), key, EncodeURIComponent(key))

\* result[k] = v
Assign(result, k, v) ==
  IF \E i \in 1..Len(result) : result[i].k = k
  THEN [i \in 1..Len(result) |-> IF result[i].k = k THEN Prop(k, v) ELSE result[i]]
  ELSE Append(result, Prop(k, v))

\* Cookies.getAll(), from the list of cookies on
RECURSIVE GetAllFrom(_, _)
GetAllFrom(cookies, result) ==
  IF cookies = <<>> THEN [ok |-> TRUE, result |-> result]
  ELSE LET key == CookieKey(Head(cookies))
           decodedKey == DecodeURIComponent(key)
           decodedValue == DecodeURIComponent(CookieValue(Head(cookies)))
       IN  IF ~decodedKey.ok \/ ~decodedValue.ok THEN [ok |-> FALSE, result |-> <<>>]
           ELSE GetAllFrom(Tail(cookies),
                           Assign(result, decodedKey.s, ParseOrText(decodedValue.s)))

CookiesGetAll(j) == GetAllFrom(CookieList(DocumentCookie(j)), <<>>)

\* Cookies.delete(key)
CookiesDelete(j, key) == CookiesSet(j, key, Str(<<>>), "epoch")

\* for (const key in allCookies) this.delete(key)
RECURSIVE DeleteEach(_, _, _)
DeleteEach(j, props, ws) ==
  IF props = <<>> THEN SetOutcome("returned", j, ws)
  ELSE LET out == CookiesDelete(j, Head(props).k)
       IN  IF out.how = "threw" THEN SetOutcome("threw", j, ws)
           ELSE DeleteEach(out.jar, Tail(props), ws \o out.writes)

\* Cookies.clear()
CookiesClear(j) ==
  LET allCookies == CookiesGetAll(j)
  IN  IF ~allCookies.ok THEN SetOutcome("threw", j, <<>>)
      ELSE DeleteEach(j, allCookies.result, <<>>)

\* The keys and values the callers use.
CookieKeys == {<<"theme">>, <<"user">>, <<"a", ".", "b">>}
CookieValues ==
  { Str(<<"dark">>), Str(<<>>), Str(<<"a", ";", " ", "b">>), Str(<<"1">>), Str(<<"true">>),
    Num(7), Bool(FALSE), Null,
    JsonObject(<<Prop(<<"name">>, Str(<<"Alice">>)), Prop(<<"age">>, Num(30))>>) }

\* The cookies the server sets with the page.
ServerCookies ==
  { [name |-> <<"sid">>, value |-> <<"1">>],
    [name |-> <<"a", ".", "b">>, value |-> <<"x">>],
    [name |-> <<"pct">>, value |-> <<"5", "%">>] }

SetCall(key, value) ==
  /\ HasCookie(jar, key) \/ Len(jar) < MaxCookies
  /\ LET out == CookiesSet(jar, key, value, "none")
     IN  /\ jar' = out.jar
         /\ writes' = out.writes
         /\ lastSet' = IF out.how = "returned" THEN <<Prop(key, value)>> ELSE <<>>
         /\ lastCall' = CookieCall("set", key, out.how, Undefined)
  /\ UNCHANGED <<vars, busVars, ioVars, equalsVars, uidVars, textVars>>

GetCall(key) ==
  /\ lastCall' = CookiesGet(jar, key)
  /\ writes' = <<>>
  /\ UNCHANGED <<jar, lastSet>>
  /\ UNCHANGED <<vars, busVars, ioVars, equalsVars, uidVars, textVars>>

ClearCall ==
  /\ LET out == CookiesClear(jar)
     IN  /\ jar' = out.jar
         /\ writes' = out.writes
         /\ lastCall' = CookieCall("clear", <<>>, out.how, Undefined)
  /\ lastSet' = <<>>
  /\ UNCHANGED <<vars, busVars, ioVars, equalsVars, uidVars, textVars>>

\* A response of the server sets a cookie.
ServerSet(c) ==
  /\ ~HasCookie(jar, c.name)
  /\ Len(jar) < MaxCookies
  /\ jar' = Append(jar, c)
  /\ lastSet' = <<>>
  /\ UNCHANGED <<writes, lastCall>>
  /\ UNCHANGED <<vars, busVars, ioVars, equalsVars, uidVars, textVars>>

NextCookies ==
  \/ \E key \in CookieKeys : \E value \in CookieValues : SetCall(key, value)
  \/ \E key \in CookieKeys : GetCall(key)
  \/ ClearCall
  \/ \E c \in ServerCookies : ServerSet(c)

SpecCookies == Init /\ [][NextCookies]_<<vars, utilVars>>

\* ------------------------------------------------------------ ObjectUtil.equals
\* The trees a caller compares: primitive leaves, objects of leaves, and
\* objects with one such object as a property.  An object is a JsonObject: the
\* order of its properties is the order for...in visits them in.
PlainLeaves == {Undefined, Null, Num(1)}

\* The objects with at most two properties, named a and b, of the values.
ObjectsOf(values) ==
  LET keys == {<<"a">>, <<"b">>}
  IN  {JsonObject(<<>>)}
        \cup {JsonObject(<<Prop(k, v)>>) : k \in keys, v \in values}
        \cup {JsonObject(<<Prop(k, v), Prop(l, w)>>) :
                <<k, l>> \in {kl \in keys \X keys : kl[1] # kl[2]}, <<v, w>> \in values \X values}

PlainTrees ==
  PlainLeaves \cup ObjectsOf(PlainLeaves)
    \cup {JsonObject(<<Prop(k, o)>>) : k \in {<<"a">>, <<"b">>}, o \in ObjectsOf(PlainLeaves)}

\* typeof v
TypeOfTree(v) == IF v.t = "json" THEN "object" ELSE TypeOf(v)

KeysOf(o) == {o.props[i].k : i \in 1..Len(o.props)}

\* o[k]: undefined when o has no such property (the keys of the trees name no
\* member of Object.prototype)
Member(o, k) ==
  IF k \in KeysOf(o) THEN o.props[CHOOSE i \in 1..Len(o.props) : o.props[i].k = k].v
  ELSE Undefined

\* ObjectUtil.countProps(obj)
CountProps(o) == Cardinality(KeysOf(o))

\* ObjectUtil.equals(v1, v2), for values that are no functions; the plain
\* objects are the values that are instanceof Object.
RECURSIVE Equals(_, _)
Equals(v1, v2) ==
  IF TypeOfTree(v1) # TypeOfTree(v2) THEN FALSE
  ELSE IF v1.t = "json" /\ v2.t = "json"
       THEN IF CountProps(v1) # CountProps(v2) THEN FALSE
            ELSE \A i \in 1..Len(v1.props) :
                   Equals(Member(v1, v1.props[i].k), Member(v2, v1.props[i].k))
       ELSE v1 = v2

InitEquals ==
  /\ InitCodec /\ ObjectsIdle /\ UidIdle /\ TextIdle
  /\ eqV1 \in PlainTrees
  /\ eqV2 \in PlainTrees
  /\ eqRet = <<>>

EqualsCall ==
  /\ eqRet = <<>>
  /\ eqRet' = <<Equals(eqV1, eqV2)>>
  /\ UNCHANGED <<eqV1, eqV2>>
  /\ UNCHANGED <<vars, busVars, ioVars, cookieVars, uidVars, textVars>>

SpecEquals == InitEquals /\ [][EqualsCall]_<<vars, utilVars>>

\* ------------------------------------------------------------ UidGenerator.generateUniqueNumber
\* The arguments the callers pass: max is min plus one of the ranges.
UidMins == {-5, 0, 3}
UidRanges == {1, 2, 256, 257, 65536, 16777216, 16777217, 2000000000}

\* The bytes followed, of those the random source can yield.
ByteSamples == {0, 1, 127, 128, 255}

\* Math.ceil(Math.log2(range) / 8) for an integer range >= 1: the least k
\* with 256^k >= range.
RECURSIVE BytesNeeded(_)
BytesNeeded(range) == IF range <= 1 THEN 0 ELSE 1 + BytesNeeded((range + 255) \div 256)

\* x << 8 for a 32-bit signed x: the low 24 bits of x move up, the highest of
\* them becomes the sign.
ShiftLeft8(x) ==
  LET low == x % 16777216
      top == low \div 65536
  IN  (IF top >= 128 THEN top - 256 ELSE top) * 16777216 + (low % 65536) * 256

\* The loop over randomBytes; x | byte adds byte to an x whose low 8 bits
\* are 0.
RECURSIVE Accumulate(_, _)
Accumulate(bytes, randomNumber) ==
  IF bytes = <<>> THEN randomNumber
  ELSE Accumulate(Tail(bytes), ShiftLeft8(randomNumber) + Head(bytes))

\* a % m of JavaScript, m > 0: the remainder has the sign of a.
Remainder(a, m) == LET r == a % m IN IF a < 0 /\ r # 0 THEN r - m ELSE r

\* generateUniqueNumber(min, max), the random source yielding bytes
GenerateUniqueNumber(min, max, bytes) ==
  LET range == max - min
  IN  min + Remainder(Accumulate(bytes, 0), range + 1)

InitUid ==
  /\ InitCodec /\ ObjectsIdle /\ EqualsIdle /\ TextIdle
  /\ uidMin \in UidMins
  /\ uidMax \in {uidMin + range : range \in UidRanges}
  /\ uidBytes = <<>>
  /\ uidRet = <<>>

UniqueNumberCall ==
  /\ uidRet = <<>>
  /\ \E bytes \in [1..BytesNeeded(uidMax - uidMin) -> ByteSamples] :
       /\ uidBytes' = bytes
       /\ uidRet' = <<GenerateUniqueNumber(uidMin, uidMax, bytes)>>
  /\ UNCHANGED <<uidMin, uidMax>>
  /\ UNCHANGED <<vars, busVars, ioVars, cookieVars, equalsVars, textVars>>

SpecUid == InitUid /\ [][UniqueNumberCall]_<<vars, utilVars>>

\* ------------------------------------------------------------ TextUtil.truncate
\* The longest text the callers pass.
MaxText == 4

\* The texts: a text is the sequence of its characters.
RECURSIVE TextsOf(_)
TextsOf(n) ==
  IF n = 0 THEN {<<>>}
  ELSE TextsOf(n - 1) \cup {Append(t, c) : t \in TextsOf(n - 1), c \in {"a", "b"}}

\* The default value of the parameter ellipsis.
Ellipsis == <<".", ".", ".">>

\* TextUtil.truncate(text, maxLength), 0 <= maxLength; text.slice(0, n) is
\* the first n characters of a longer text.
Truncate(s, n, ellipsis) ==
  IF Len(s) <= n THEN s ELSE SubSeq(s, 1, n) \o ellipsis

InitText ==
  /\ InitCodec /\ ObjectsIdle /\ EqualsIdle /\ UidIdle
  /\ text \in TextsOf(MaxText)
  /\ maxLength \in 0..(MaxText + 1)
  /\ truncated = <<>>

TruncateCall ==
  /\ truncated = <<>>
  /\ truncated' = <<Truncate(text, maxLength, Ellipsis)>>
  /\ UNCHANGED <<text, maxLength>>
  /\ UNCHANGED <<vars, busVars, ioVars, cookieVars, equalsVars, uidVars>>

SpecText == InitText /\ [][TruncateCall]_<<vars, utilVars>>

\* ------------------------------------------------------------ claims
\* What the claims speak of, read off the heap without the codec: an object's
\* slots are its property values, elements, entries or items.
IsComposite(h, v) == v.t = "ref" /\ h[v.n].kind \in CompositeKinds

CompositesIn(h, o) ==
  {h[o].vals[i].n : i \in {j \in 1..Len(h[o].vals) : IsComposite(h, h[o].vals[j])}}

RECURSIVE ReachSet(_, _, _)
ReachSet(h, S, fuel) ==
  IF fuel = 0 THEN S
  ELSE ReachSet(h, S \cup UNION {CompositesIn(h, o) : o \in S}, fuel - 1)

\* Some composite reachable from v is reachable from itself.
Cyclic(h, v) ==
  /\ IsComposite(h, v)
  /\ \E o \in ReachSet(h, {v.n}, Len(h)) : o \in ReachSet(h, CompositesIn(h, o), Len(h))

\* The leaves below v, one per position, depth first (of an acyclic v).
RECURSIVE LeavesOf(_, _, _)
RECURSIVE LeavesOfAll(_, _, _)
LeavesOf(h, v, fuel) ==
  IF IsComposite(h, v)
  THEN IF fuel = 0 THEN <<>> ELSE LeavesOfAll(h, h[v.n].vals, fuel - 1)
  ELSE <<v>>
LeavesOfAll(h, vs, fuel) ==
  IF vs = <<>> THEN <<>>
  ELSE LeavesOf(h, Head(vs), fuel) \o LeavesOfAll(h, Tail(vs), fuel)

Count(seq, S) == Cardinality({i \in 1..Len(seq) : seq[i] \in S})

IsKind(h, v, kind) == v.t = "ref" /\ h[v.n].kind = kind

\* The entries the call in progress, or the finished call, has appended.
Emitted == SubSeq(forms[form], Len(before) + 1, Len(forms[form]))

EmittedValues == [i \in 1..Len(Emitted) |-> Emitted[i].v]

Finished == pc \in {"encoded", "encodeThrew"}

\* C2: a call of fromObject on a value in which some composite is reachable
\* from itself ends with the cyclic-reference error and returns nothing.
C2_CyclicInputThrows ==
  (Finished /\ Cyclic(heap, root)) =>
    (pc = "encodeThrew" /\ err = "CyclicReference" /\ ret = Undefined)

\* A cycle through two objects of different kinds was met and reported.
C2_Witness ==
  /\ pc = "encodeThrew"
  /\ Cyclic(heap, root)
  /\ \E o \in CompositesIn(heap, root.n) :
       o # root.n /\ heap[o].kind # heap[root.n].kind /\ root.n \in CompositesIn(heap, o)

\* C3: fromObject raises the cyclic-reference error only for a cyclic value;
\* an acyclic one, shared composites included, is encoded to the end with one
\* entry per position of a supported leaf.
SupportedLeaf(h, v) ==
  v.t \in {"string", "number", "boolean"} \/ IsKind(h, v, "date") \/ IsKind(h, v, "blob")

C3_AcyclicInputEncodes ==
  (Finished /\ ~Cyclic(heap, root)) =>
    /\ pc = "encoded"
    /\ err = "none"
    /\ LET leaves == LeavesOf(heap, root, Len(heap))
       IN  Len(Emitted) = Cardinality({i \in 1..Len(leaves) : SupportedLeaf(heap, leaves[i])})

\* A composite held at two positions of an acyclic value was encoded.
C3_Witness ==
  /\ pc = "encoded"
  /\ IsComposite(heap, root)
  /\ \E i, j \in 1..Len(heap[root.n].vals) :
       /\ i # j
       /\ heap[root.n].vals[i] = heap[root.n].vals[j]
       /\ IsComposite(heap, heap[root.n].vals[i])

PrimitiveTexts == {Str(ToStr(v)) : v \in {w \in LeafValues : w.t \in {"string", "number", "boolean"}}}

C9_UnsupportedLeavesAreSkipped ==
  /\ pc \in {"encoding", "encoded", "encodeThrew"} => err \in {"none", "CyclicReference"}
  /\ pc = "encoded" =>
       LET leaves == LeavesOf(heap, root, Len(heap))
       IN  /\ Count(EmittedValues, PrimitiveTexts)
                = Cardinality({i \in 1..Len(leaves) :
                                 leaves[i].t \in {"string", "number", "boolean"}})
           /\ Len(Emitted)
                = Cardinality({i \in 1..Len(leaves) : SupportedLeaf(heap, leaves[i])})

\* A function or symbol and a number were met in one encode, which emitted
\* the number's entry alone.
C9_Witness ==
  /\ pc = "encoded"
  /\ LET leaves == LeavesOf(heap, root, Len(heap))
     IN  /\ \E i \in 1..Len(leaves) : leaves[i].t \in {"function", "symbol"}
         /\ \E i \in 1..Len(leaves) : leaves[i].t = "number"
  /\ Len(Emitted) = 1

\* C10: a fromObject call given an accumulator works on it and returns it: at
\* every moment of the call the entries the accumulator held before are its
\* first entries, unchanged and in order, and the call returns that accumulator.
C10_AccumulatorIsExtended ==
  (pc \in {"encoding", "encoded", "encodeThrew"} /\ arg # 0) =>
    /\ form = arg
    /\ Len(forms[arg]) >= Len(before)
    /\ SubSeq(forms[arg], 1, Len(before)) = before
    /\ pc = "encoded" => ret = FormRef(arg)

\* An accumulator that held an entry was given, extended and returned.
C10_Witness ==
  /\ pc = "encoded"
  /\ arg # 0
  /\ before # <<>>
  /\ Len(forms[arg]) > Len(before)
  /\ ret = FormRef(arg)

\* ---- toObject
\* toObject has returned the tree of a FormData the caller filled by hand.
HandDecoded == pc = "decoded" /\ src = 1 /\ form = 0

\* A key without brackets.
IsPlainKey(k) == k # <<>> /\ \A i \in 1..Len(k) : ~IsBracket(k[i])

\* v is an array that holds exactly the values of the entries es, in order.
IsArrayOf(h, v, es) ==
  /\ IsArray(h, v)
  /\ h[v.n].len = Len(es)
  /\ \A i \in 1..Len(es) : GetProp(h, v.n, NatToStr(i - 1)) = es[i].v

\* C4: entries that all have the same plain key k decode to the value itself
\* when there is one (the key being unset, it is stored directly) and, when
\* there are n >= 2, to a sequence at k of the n values in input order.
C4_SameKeyCoalesces ==
  LET es == forms[1]
  IN  (HandDecoded /\ es # <<>> /\ IsPlainKey(es[1].k) /\ \A i \in 1..Len(es) : es[i].k = es[1].k) =>
        LET v == GetProp(heap, obj, es[1].k)
        IN  IF Len(es) = 1 THEN v = es[1].v ELSE IsArrayOf(heap, v, es)

\* C5: k >= 1 entries with the key `p[]` decode to a sequence at p of exactly
\* those k values in input order.
C5_TrailingBracketsAppend ==
  LET es == forms[1]
  IN  (HandDecoded /\ es # <<>> /\ \A i \in 1..Len(es) : es[i].k = <<"a", "[", "]">>) =>
        IsArrayOf(heap, GetProp(heap, obj, <<"a">>), es)

\* C6: entries with the keys p[0], p[1], ..., p[n-1] decode to an array at p
\* of length n whose element i is the value given for p[i].
C6_IndexedKeysMakeArrays ==
  LET es == forms[1]
  IN  (HandDecoded /\ es # <<>>
         /\ \A i \in 1..Len(es) : es[i].k = <<"a", "[">> \o NatToStr(i - 1) \o <<"]">>) =>
        IsArrayOf(heap, GetProp(heap, obj, <<"a">>), es)

\* C7: toObject never raises, whatever the keys of the entries.
C7_ToObjectNeverRaises == pc # "decodeThrew"

\* ---- the round trip
\* toObject has returned the tree of what fromObject(root) returned.
RoundTripped == pc = "decoded" /\ form # 0 /\ src = form /\ arg = 0

\* v is a string, number or boolean, or a non-empty plain object or array of
\* such values.
RECURSIVE IsPlainTree(_, _, _)
IsPlainTree(h, v, fuel) ==
  \/ v.t \in {"string", "number", "boolean"}
  \/ /\ v.t = "ref"
     /\ fuel > 0
     /\ h[v.n].kind \in {"obj", "arr"}
     /\ h[v.n].vals # <<>>
     /\ \A i \in 1..Len(h[v.n].vals) : IsPlainTree(h, h[v.n].vals[i], fuel - 1)

\* y has the structure of x, its leaves being the text of those of x.
RECURSIVE SameStructure(_, _, _, _)
SameStructure(h, x, y, fuel) ==
  IF x.t # "ref" THEN y = Str(ToStr(x))
  ELSE /\ fuel > 0
       /\ y.t = "ref"
       /\ h[y.n].kind = h[x.n].kind
       /\ {h[y.n].keys[i] : i \in 1..Len(h[y.n].keys)} = {h[x.n].keys[i] : i \in 1..Len(h[x.n].keys)}
       /\ h[y.n].len = h[x.n].len
       /\ \A i \in 1..Len(h[x.n].keys) :
            SameStructure(h, h[x.n].vals[i], GetProp(h, y.n, h[x.n].keys[i]), fuel - 1)

\* C1: toObject(fromObject(x)) has the structure of x, with the leaves as
\* text, for x a plain object whose composites are non-empty plain objects and
\* arrays and whose leaves are strings, numbers and booleans.
C1_RoundTrip ==
  (RoundTripped /\ IsKind(heap, root, "obj") /\ IsPlainTree(heap, root, Len(heap))) =>
    SameStructure(heap, root, ret, Len(heap))

C12_OnceCallsBackOnce == (io = "created" /\ once) => callbacks <= 1

\* C13: Cookies.get(key) after Cookies.set(key, v) returns v, with its type.
C13_GetReturnsWhatWasSet ==
  (lastCall.op = "get" /\ lastSet # <<>> /\ lastCall.key = lastSet[1].k)
    => (lastCall.how = "returned" /\ lastCall.ret = lastSet[1].v)

\* C14: Cookies.clear() returns normally and writes an expiring, empty cookie
\* for every cookie of the jar.
C14_ClearExpiresEveryCookie ==
  [][ClearCall =>
       /\ lastCall'.how = "returned"
       /\ \A i \in 1..Len(jar) : \E k \in 1..Len(writes') :
            writes'[k] = Write(jar[i].name, <<>>, "epoch")]_cookieVars

\* Deep equality of two trees: the same keys at every level, the same leaves.
RECURSIVE SameTree(_, _)
SameTree(a, b) ==
  IF a.t = "json" /\ b.t = "json"
  THEN /\ KeysOf(a) = KeysOf(b)
       /\ \A k \in KeysOf(a) : SameTree(Member(a, k), Member(b, k))
  ELSE a.t # "json" /\ b.t # "json" /\ a = b

\* C15: equals(v1, v2) is true exactly for deeply equal trees, and is
\* symmetric.
C15_EqualsIsDeepEquality ==
  eqRet # <<>> =>
    /\ eqRet[1] = SameTree(eqV1, eqV2)
    /\ eqRet[1] = Equals(eqV2, eqV1)

\* C16: generateUniqueNumber(min, max) returns a number from min to max,
\* whatever the random bytes.
C16_NumberWithinRange ==
  uidRet # <<>> => (uidMin <= uidRet[1] /\ uidRet[1] <= uidMax)

\* C17: truncate(text, maxLength) is at most maxLength characters long, and
\* is text itself when text is no longer than that.
C17_TruncatedFits ==
  truncated # <<>> =>
    /\ Len(truncated[1]) <= maxLength
    /\ Len(text) <= maxLength => truncated[1] = text

\* C18: while fromObject traverses, seen holds exactly the objects of the
\* calls in progress, which form the path from the root to the value being
\* processed, each once; it is empty when the call has returned.
C18_SeenIsTheRecursionPath ==
  /\ pc = "encoding" =>
       /\ seen = {stack[k].o : k \in 1..Len(stack)}
       /\ Cardinality(seen) = Len(stack)
       /\ Ref(stack[1].o) = root
       /\ \A k \in 1..(Len(stack) - 1) :
            Children(heap[stack[k].o])[stack[k].i].v = Ref(stack[k + 1].o)
  /\ pc = "encoded" => seen = {}

\* The root's second composite is being processed after its first was left.
C18_Witness ==
  /\ pc = "encoding"
  /\ Len(stack) = 2
  /\ stack[1].i = 2
  /\ IsComposite(heap, Children(heap[stack[1].o])[1].v)
  /\ Children(heap[stack[1].o])[1].v # Ref(stack[2].o)

\* A mapping: a plain object.
IsMapping(h, v) == v.t = "ref" /\ h[v.n].kind = "obj"

\* C19: no pair of a toObject call replaces an array held at a key of a
\* container of the tree by a mapping, or a mapping by an array.
C19_ContainerKindIsKept ==
  [][ToObjectStep =>
       \A o \in Built : \A i \in 1..Len(heap[o].keys) :
         LET was == heap[o].vals[i]
             now == heap'[o].vals[i]
         IN  /\ IsArray(heap, was) => ~IsMapping(heap', now)
             /\ IsMapping(heap, was) => ~IsArray(heap', now)]_vars

\* The objects of the tree under the objects os: those reached through own
\* properties in at most n steps.
RECURSIVE OwnTree(_, _, _)
OwnTree(h, os, n) ==
  IF n = 0 THEN os
  ELSE OwnTree(h,
               os \cup UNION {{h[o].vals[i].n : i \in {j \in 1..Len(h[o].vals) : h[o].vals[j].t = "ref"}} :
                               o \in os},
               n - 1)

\* C20: an array of the tree toObject returns holds values at array indices
\* only, never under another member such as NaN.
C20_ArraysHoldIndicesOnly ==
  pc = "decoded" =>
    \A o \in OwnTree(heap, {obj}, Len(heap)) :
      heap[o].kind = "arr" => \A i \in 1..Len(heap[o].keys) : IsArrayIndex(heap[o].keys[i])

\* C21: a fromObject call that was given an accumulator and ended with the
\* cyclic-reference error leaves in the accumulator exactly the entries it
\* held before the call, none of those emitted before the cycle was met.
C21_AccumulatorRestoredOnCycle ==
  (pc = "encodeThrew" /\ arg # 0) => forms[arg] = before

\* The key the path construction rule gives the segments s1, ..., sn, taken
\* from the root: s1, then [s] for each further segment s while the path so
\* far is a non-empty string.
RECURSIVE BracketKey(_)
BracketKey(segs) ==
  IF Len(segs) = 1 THEN segs[1]
  ELSE LET parent == BracketKey(SubSeq(segs, 1, Len(segs) - 1))
           last == segs[Len(segs)]
       IN  IF parent = <<>> THEN last ELSE parent \o <<"[">> \o last \o <<"]">>

\* The keys of the supported leaves below the members kids of a container
\* reached through the segments path, depth first in iteration order; on
\* holds the composites from the root down to that container, and a member
\* that is one of them is not descended into.
RECURSIVE KeysBelow(_, _, _, _)
KeysBelow(h, kids, path, on) ==
  IF kids = <<>> THEN <<>>
  ELSE LET kid == Head(kids)
           p == Append(path, kid.seg)
           here == IF IsComposite(h, kid.v)
                   THEN IF kid.v.n \in on THEN <<>>
                        ELSE KeysBelow(h, Children(h[kid.v.n]), p, on \cup {kid.v.n})
                   ELSE IF SupportedLeaf(h, kid.v) THEN <<BracketKey(p)>> ELSE <<>>
       IN  here \o KeysBelow(h, Tail(kids), path, on)

\* C22: the entries a fromObject call on a composite has emitted so far are,
\* in order, the first of the leaves below it taken depth first in each
\* container's iteration order, each under the key the path construction
\* rule builds from its segments; a call that returns has emitted them all.
C22_KeysFollowThePath ==
  (pc \in {"encoding", "encoded", "encodeThrew"} /\ IsComposite(heap, root)) =>
    LET keys == KeysBelow(heap, Children(heap[root.n]), <<>>, {root.n})
    IN  /\ Len(Emitted) <= Len(keys)
        /\ \A i \in 1..Len(Emitted) : Emitted[i].k = keys[i]
        /\ pc = "encoded" => Len(Emitted) = Len(keys)

\* A leaf two segments below the root, an array element inside a property or
\* a Map entry, was emitted under its bracketed key.
C22_Witness ==
  /\ pc = "encoded"
  /\ IsComposite(heap, root)
  /\ \E i \in 1..Len(Emitted) : Emitted[i].k = <<"k", "1", "[", "0", "]">>

====
